---- MODULE Spec2Model ----
(***************************************************************************)
(* A model of the gameplay-simulation layer of arpg-engine-browser:        *)
(*   - InventorySystem (src/src/systems/InventorySystem.ts)                *)
(*   - Player stats    (src/src/entities/Player.ts)                        *)
(*   - Enemy           (src/src/entities/Enemy.ts)                         *)
(*   - CombatSystem    (src/src/systems/CombatSystem.ts)                   *)
(*                                                                         *)
(* Conventions.                                                            *)
(*   null      a slot's `item: null` is the record null below.             *)
(*   stackSize the optional field `stackSize?: number`; 0 stands for an    *)
(*             absent stackSize (both are falsy in `item.stackSize && ..`  *)
(*             and in `item.stackSize || 1`).                              *)
(*   TypeError a call that ends by a JavaScript TypeError is recorded with *)
(*             ret = "TypeError"; the object keeps whatever it had written *)
(*             before the throw.                                           *)
(***************************************************************************)
EXTENDS Integers, Sequences, FiniteSets, TLC

VARIABLES
    slots,               \* InventorySystem.slots : slot index -> [item, quantity]
    onInventoryChanged,  \* InventorySystem.onInventoryChanged is set (TRUE) or undefined
    invCall,             \* the last public call on the inventory, as observed by its caller
    player,              \* the Player object: position, target, stats
    enemies,             \* CombatSystem.enemies : sequence of Enemy objects
    now,                 \* the value Date.now() returns (ms)
    spawned,             \* number of Enemy objects constructed so far (object identity)
    lastPlayerAttack,    \* time of the player's latest auto-attack that dealt damage
    entCall              \* the last call on Player / Enemy / CombatSystem, as observed

invVars == <<slots, onInventoryChanged, invCall>>

entVars == <<player, enemies, now, spawned, lastPlayerAttack, entCall>>

vars == <<slots, onInventoryChanged, invCall,
          player, enemies, now, spawned, lastPlayerAttack, entCall>>

----------------------------------------------------------------------------
(* Bounds of the model *)

\* InventorySystem.maxSlots is 40 in the code; the model keeps the same
\* initializeSlots loop over a smaller number of slots.
MaxSlots == 3

\* Largest quantity argument passed to addItem / removeItem.
MaxQty == 2

\* Stack size of the stackable catalogue item (20 for the potions of
\* createSampleItems; scaled down with the quantities).
MaxStack == 2

----------------------------------------------------------------------------
(* InventorySystem: data *)

SlotIds == 0 .. (MaxSlots - 1)

\* Slot indices a caller may pass: one below and one above the valid range.
IdxArgs == -1 .. MaxSlots

null == [id |-> "null", stackSize |-> 0]

\* Item templates (createSampleItems): a non-stackable item declared with
\* stackSize 1, a stackable one, and one declared without stackSize.
Catalog ==
    { [id |-> "sword_001",     stackSize |-> 1],
      [id |-> "health_potion", stackSize |-> MaxStack],
      [id |-> "quest_relic",   stackSize |-> 0] }

ItemIds == { it.id : it \in Catalog }

emptySlot == [item |-> null, quantity |-> 0]

\* initializeSlots(): every slot is { item: null, quantity: 0 }.
initializeSlots == [i \in SlotIds |-> emptySlot]

Min(a, b) == IF a <= b THEN a ELSE b
Max(a, b) == IF a >= b THEN a ELSE b

NoIndex == -1

\* A variant of FindSlot that gives the highest index.
FindSlot_last(S) == IF S = {} THEN NoIndex ELSE CHOOSE i \in S : \A j \in S : i >= j

\* Array.prototype.find over this.slots: the lowest index whose slot
\* satisfies the predicate, NoIndex when there is none.
FindSlot(S) == IF S = {} THEN NoIndex ELSE CHOOSE i \in S : \A j \in S : i <= j

\* notifyInventoryChanged(): invokes the callback when one is registered.
notifyInventoryChanged(cb) == IF cb THEN 1 ELSE 0


----------------------------------------------------------------------------
(* InventorySystem: operations.  Each operator computes, from the slots s   *)
(* and the callback registration cb, the slots after the call, the value    *)
(* returned and the number of callback invocations made during the call.    *)

\* `item.stackSize || 1`
StackOrOne(item) == IF item.stackSize # 0 THEN item.stackSize ELSE 1

\* A variant of placedQuantity without the Math.min clamp.
placedQuantity_noClamp(quantity, item) == quantity

\* The quantity written into an empty slot: Math.min(quantity, stackOrOne).
\*                                                 InventorySystem.ts:64
placedQuantity(quantity, item) == Min(quantity, StackOrOne(item))

\* A variant of addItem that never tops up an existing stack.
addItem_noTopUp(s, cb, item, quantity) ==
    LET freeSlot == FindSlot({ i \in SlotIds : s[i].item = null })
    IN  IF freeSlot # NoIndex /\ quantity > 0
        THEN [slots |-> [s EXCEPT ![freeSlot] =
                            [item |-> item,
                             quantity |-> placedQuantity(quantity, item)]],
              ret |-> "true", removed |-> null,
              notified |-> notifyInventoryChanged(cb)]
        ELSE [slots |-> s, ret |-> "false", removed |-> null, notified |-> 0]

\* addItem(item, quantity)                         InventorySystem.ts:39-70
addItem(s, cb, item, quantity) ==
    LET stackable == item.stackSize # 0 /\ item.stackSize > 1
        existingSlot ==
            IF stackable
            THEN FindSlot({ i \in SlotIds :
                              /\ s[i].item # null
                              /\ s[i].item.id = item.id
                              /\ s[i].quantity < item.stackSize })
            ELSE NoIndex
        canAdd == IF existingSlot # NoIndex
                  THEN Min(quantity, item.stackSize - s[existingSlot].quantity)
                  ELSE 0
        s1 == IF existingSlot # NoIndex
              THEN [s EXCEPT ![existingSlot].quantity = @ + canAdd]
              ELSE s
        rest == quantity - canAdd
        freeSlot == FindSlot({ i \in SlotIds : s1[i].item = null })
    IN  IF existingSlot # NoIndex /\ rest <= 0
        THEN [slots |-> s1, ret |-> "true", removed |-> null,
              notified |-> notifyInventoryChanged(cb)]
        ELSE IF freeSlot # NoIndex /\ rest > 0
        THEN [slots |-> [s1 EXCEPT ![freeSlot] =
                            [item |-> item,
                             quantity |-> placedQuantity(rest, item)]],
              ret |-> "true", removed |-> null,
              notified |-> notifyInventoryChanged(cb)]
        ELSE [slots |-> s1, ret |-> "false", removed |-> null, notified |-> 0]

\* A variant of removeItem that notifies also when nothing was removed.
removeItem_notifyAlways(s, cb, slotId, quantity) ==
    IF slotId \notin SlotIds \/ s[slotId].item = null
    THEN [slots |-> s, ret |-> "null", removed |-> null,
          notified |-> notifyInventoryChanged(cb)]
    ELSE LET left == s[slotId].quantity - quantity
         IN  [slots |-> IF left <= 0
                        THEN [s EXCEPT ![slotId] = emptySlot]
                        ELSE [s EXCEPT ![slotId].quantity = left],
              ret |-> "item", removed |-> s[slotId].item,
              notified |-> notifyInventoryChanged(cb)]

\* A variant of removeItem that leaves the item in a slot it has emptied.
removeItem_keepItem(s, cb, slotId, quantity) ==
    IF slotId \notin SlotIds \/ s[slotId].item = null
    THEN [slots |-> s, ret |-> "null", removed |-> null, notified |-> 0]
    ELSE [slots |-> [s EXCEPT ![slotId].quantity = Max(0, @ - quantity)],
          ret |-> "item", removed |-> s[slotId].item,
          notified |-> notifyInventoryChanged(cb)]

\* removeItem(slotId, quantity)                    InventorySystem.ts:72-86
removeItem(s, cb, slotId, quantity) ==
    IF slotId \notin SlotIds \/ s[slotId].item = null
    THEN [slots |-> s, ret |-> "null", removed |-> null, notified |-> 0]
    ELSE LET left == s[slotId].quantity - quantity
         IN  [slots |-> IF left <= 0
                        THEN [s EXCEPT ![slotId] = emptySlot]
                        ELSE [s EXCEPT ![slotId].quantity = left],
              ret |-> "item", removed |-> s[slotId].item,
              notified |-> notifyInventoryChanged(cb)]

\* A variant of relocateStack that forgets to empty the source slot.
relocateStack_copy(s, fromSlotId, toSlotId) ==
    [s EXCEPT ![toSlotId] = s[fromSlotId]]

\* moveItem, destination empty: the whole stack is relocated.
\*                                                 InventorySystem.ts:97-104
relocateStack(s, fromSlotId, toSlotId) ==
    [s EXCEPT ![toSlotId] = s[fromSlotId], ![fromSlotId] = emptySlot]

\* A variant of mergeStacks that moves the whole source stack, room or not.
mergeStacks_all(s, fromSlotId, toSlotId) ==
    [s EXCEPT ![toSlotId].quantity = @ + s[fromSlotId].quantity,
              ![fromSlotId] = emptySlot]

\* A variant of mergeStacks that forgets `fromSlot.quantity -= canMove`.
mergeStacks_keepSource(s, fromSlotId, toSlotId) ==
    LET fromSlot == s[fromSlotId]
        toSlot   == s[toSlotId]
        canMove  == Min(fromSlot.quantity,
                        fromSlot.item.stackSize - toSlot.quantity)
    IN  [s EXCEPT ![toSlotId].quantity = @ + canMove]

\* moveItem, same identifier with room in the destination: as much as fits
\* is transferred; the source is cleared when nothing is left in it.
\*                                                 InventorySystem.ts:107-126
mergeStacks(s, fromSlotId, toSlotId) ==
    LET fromSlot == s[fromSlotId]
        toSlot   == s[toSlotId]
        canMove  == Min(fromSlot.quantity,
                        fromSlot.item.stackSize - toSlot.quantity)
        fromLeft == fromSlot.quantity - canMove
    IN  [s EXCEPT ![toSlotId].quantity = @ + canMove,
                  ![fromSlotId] = IF fromLeft <= 0
                                  THEN emptySlot
                                  ELSE [fromSlot EXCEPT !.quantity = fromLeft]]

\* moveItem, otherwise: the two slots exchange item and quantity.
\*                                                 InventorySystem.ts:128-136
swapSlots(s, fromSlotId, toSlotId) ==
    [s EXCEPT ![toSlotId] = s[fromSlotId], ![fromSlotId] = s[toSlotId]]

\* A variant of canStack without the test for room in the destination.
canStack_noRoomTest(fromSlot, toSlot) ==
    /\ toSlot.item.id = fromSlot.item.id
    /\ fromSlot.item.stackSize # 0

\* The test that selects the merge branch.         InventorySystem.ts:107-109
canStack(fromSlot, toSlot) ==
    /\ toSlot.item.id = fromSlot.item.id
    /\ fromSlot.item.stackSize # 0
    /\ toSlot.quantity < fromSlot.item.stackSize

\* A variant of moveItem without the test `fromSlotId === toSlotId`.
moveItem_noSameSlotTest(s, cb, fromSlotId, toSlotId) ==
    IF fromSlotId \notin SlotIds \/ s[fromSlotId].item = null
    THEN [slots |-> s, ret |-> "false", removed |-> null, notified |-> 0]
    ELSE IF toSlotId \notin SlotIds
    THEN [slots |-> s, ret |-> "TypeError", removed |-> null, notified |-> 0]
    ELSE [slots |-> IF s[toSlotId].item = null
                    THEN relocateStack(s, fromSlotId, toSlotId)
                    ELSE IF canStack(s[fromSlotId], s[toSlotId])
                    THEN mergeStacks(s, fromSlotId, toSlotId)
                    ELSE swapSlots(s, fromSlotId, toSlotId),
          ret |-> "true", removed |-> null,
          notified |-> notifyInventoryChanged(cb)]

\* moveItem(fromSlotId, toSlotId)                  InventorySystem.ts:88-140
\* toSlot is read as this.slots[toSlotId] and dereferenced (`toSlot.item`)
\* without a test: for an index outside the array it is undefined and the
\* dereference raises a TypeError, before any slot has been written.
moveItem(s, cb, fromSlotId, toSlotId) ==
    IF fromSlotId = toSlotId
    THEN [slots |-> s, ret |-> "false", removed |-> null, notified |-> 0]
    ELSE IF fromSlotId \notin SlotIds \/ s[fromSlotId].item = null
    THEN [slots |-> s, ret |-> "false", removed |-> null, notified |-> 0]
    ELSE IF toSlotId \notin SlotIds
    THEN [slots |-> s, ret |-> "TypeError", removed |-> null, notified |-> 0]
    ELSE [slots |-> IF s[toSlotId].item = null
                    THEN relocateStack(s, fromSlotId, toSlotId)
                    ELSE IF canStack(s[fromSlotId], s[toSlotId])
                    THEN mergeStacks(s, fromSlotId, toSlotId)
                    ELSE swapSlots(s, fromSlotId, toSlotId),
          ret |-> "true", removed |-> null,
          notified |-> notifyInventoryChanged(cb)]

----------------------------------------------------------------------------
(* InventorySystem: actions *)

\* What the caller of the last inventory operation observed: the call, its
\* arguments, the slots and the callback registration before it, the value
\* returned and the number of callback invocations during the call.
CallRecord(op, item, qty, from, to, r) ==
    [op |-> op, item |-> item, qty |-> qty, from |-> from, to |-> to,
     before |-> slots, cb |-> onInventoryChanged,
     ret |-> r.ret, removed |-> r.removed, notified |-> r.notified]

NoCall ==
    [op |-> "none", item |-> null, qty |-> 0, from |-> 0, to |-> 0,
     before |-> initializeSlots, cb |-> FALSE,
     ret |-> "none", removed |-> null, notified |-> 0]

InitInventory ==
    /\ slots = initializeSlots
    /\ onInventoryChanged = FALSE
    /\ invCall = NoCall

SetInventoryChangedCallback ==
    /\ onInventoryChanged' = TRUE
    /\ UNCHANGED <<slots, invCall>>
    /\ UNCHANGED entVars

AddItem(Quantities) ==
    \E item \in Catalog, quantity \in Quantities :
        LET r == addItem(slots, onInventoryChanged, item, quantity)
        IN  /\ slots' = r.slots
            /\ invCall' = CallRecord("add", item, quantity, 0, 0, r)
            /\ UNCHANGED onInventoryChanged
            /\ UNCHANGED entVars

RemoveItem(Quantities) ==
    \E slotId \in IdxArgs, quantity \in Quantities :
        LET r == removeItem(slots, onInventoryChanged, slotId, quantity)
        IN  /\ slots' = r.slots
            /\ invCall' = CallRecord("remove", null, quantity, slotId, 0, r)
            /\ UNCHANGED onInventoryChanged
            /\ UNCHANGED entVars

MoveItem ==
    \E fromSlotId \in IdxArgs, toSlotId \in IdxArgs :
        LET r == moveItem(slots, onInventoryChanged, fromSlotId, toSlotId)
        IN  /\ slots' = r.slots
            /\ invCall' = CallRecord("move", null, 0, fromSlotId, toSlotId, r)
            /\ UNCHANGED onInventoryChanged
            /\ UNCHANGED entVars

\* Quantity arguments that are integers >= 1.
ValidQty == 1 .. MaxQty

NextInventory ==
    \/ SetInventoryChangedCallback
    \/ AddItem(ValidQty)
    \/ RemoveItem(ValidQty)
    \/ MoveItem

----------------------------------------------------------------------------
(* Entities: units and constants.                                           *)
(*                                                                          *)
(* Positions are points of one ground axis (the z axis, on which            *)
(* spawnEnemies puts the enemy (0, 0, 8)); for collinear points             *)
(* Vector3.distanceTo, sub, normalize and multiplyScalar are exact:         *)
(* distance |a - b|, direction -1 or +1.  Lengths are counted in units of   *)
(* 0.05, elapsed frame time (deltaTime) in units of 0.1 s, Date.now() in    *)
(* ms.                                                                      *)

enemyAttackRange == 40         \* Enemy.attackRange = 2
enemyDetectionRange == 100     \* Enemy.detectionRange = 5
playerAttackRange == 50        \* handlePlayerAttacks: attackRange = 2.5
arriveEpsilon == 2             \* `distance < 0.1`
enemyMoveSpeed == 3            \* Enemy.moveSpeed = 1.5 per second
playerMoveSpeed == 6           \* Player.moveSpeed = 3.0 per second
enemyAttackCooldown == 2000    \* Enemy.attackCooldown
enemyAttackDamage == 10        \* Enemy.attackDamage
playerAttackDamage == 25       \* handlePlayerAttacks: enemy.takeDamage(25)
enemyMaxHealth == 50           \* Enemy.health = Enemy.maxHealth = 50
playerStartHealth == 100       \* Player.health = Player.maxHealth = 100
healthPerLevel == 20           \* levelUp: maxHealth += 20
expPerLevel == 100             \* gainExperience: level * 100
killExperience == 25           \* CombatSystem.update: gainExperience(25)

(* Bounds of the entity model *)

\* Date.now() when the first enemy acts; Enemy.lastAttackTime starts at 0,
\* so any real clock value is at least one cooldown past it.
StartTime == 2000

\* Granularity of the clock and number of clock steps considered.
TimeStep == 2000
MaxClockSteps == 1

\* Enemy objects in the list at one time, and constructed in total.
MaxEnemies == 2
MaxSpawns == 2

\* The frame time passed to the update methods (units of 0.1 s).
FrameDelta == 10

\* Highest level considered.
MaxLevel == 3

Abs(x) == IF x < 0 THEN -x ELSE x

\* Vector3.distanceTo for points of the axis.
distanceTo(a, b) == Abs(a - b)

\* direction.normalize() for points of the axis.
Sign(x) == IF x < 0 THEN -1 ELSE IF x > 0 THEN 1 ELSE 0

\* Positions given to spawnEnemy, and ground points given to moveTo.
SpawnPositions == {40, 100}
ClickTargets == {0, -60}
DeltaTimes == {FrameDelta}

NoTime == -1
NoEnemy == 0

----------------------------------------------------------------------------
(* Player                                                                   *)

\* new Player()                                    Player.ts:5-19
newPlayer ==
    [position |-> 0, targetPosition |-> 0, isMoving |-> FALSE,
     level |-> 1, health |-> playerStartHealth,
     maxHealth |-> playerStartHealth, experience |-> 0]

\* Player.takeDamage(damage)                       Player.ts:167-169
playerTakeDamage(p, damage) == [p EXCEPT !.health = Max(0, p.health - damage)]

\* A variant of playerHeal without the Math.min clamp.
playerHeal_noClamp(p, amount) == [p EXCEPT !.health = p.health + amount]

\* Player.heal(amount)                             Player.ts:171-173
playerHeal(p, amount) == [p EXCEPT !.health = Min(p.maxHealth, p.health + amount)]

\* A variant of levelUp that leaves the experience counter as it is.
levelUp_keepExperience(p) ==
    [p EXCEPT !.level = p.level + 1,
              !.maxHealth = p.maxHealth + healthPerLevel,
              !.health = p.maxHealth + healthPerLevel]

\* A variant of levelUp that raises the maximum without refilling health.
levelUp_noRefill(p) ==
    [p EXCEPT !.level = p.level + 1,
              !.experience = 0,
              !.maxHealth = p.maxHealth + healthPerLevel]

\* Player.levelUp()                                Player.ts:185-191
levelUp(p) ==
    [p EXCEPT !.level = p.level + 1,
              !.experience = 0,
              !.maxHealth = p.maxHealth + healthPerLevel,
              !.health = p.maxHealth + healthPerLevel]

\* A variant of gainExperience that carries the remainder over the
\* threshold into the next level.
gainExperience_keepRemainder(p, amount) ==
    LET total == p.experience + amount
    IN  IF total >= p.level * expPerLevel
        THEN [levelUp(p) EXCEPT !.experience = total - p.level * expPerLevel]
        ELSE [p EXCEPT !.experience = total]

\* Player.gainExperience(amount)                   Player.ts:175-183
gainExperience(p, amount) ==
    LET p1 == [p EXCEPT !.experience = p.experience + amount]
        expNeededForNextLevel == p1.level * expPerLevel
    IN  IF p1.experience >= expNeededForNextLevel THEN levelUp(p1) ELSE p1

\* Player.moveTo(targetPosition)                   Player.ts:131-135
playerMoveTo(p, target) == [p EXCEPT !.targetPosition = target, !.isMoving = TRUE]

\* Player.update(deltaTime); the mesh exists once Player.init has run.
\*                                                 Player.ts:98-129
playerUpdate(p, deltaTime) ==
    IF ~p.isMoving
    THEN p
    ELSE LET direction == p.targetPosition - p.position
             distance == Abs(direction)
             moveDistance == playerMoveSpeed * deltaTime
         IN  IF distance < arriveEpsilon
             THEN [p EXCEPT !.isMoving = FALSE, !.position = p.targetPosition]
             ELSE IF moveDistance >= distance
             THEN [p EXCEPT !.position = p.targetPosition, !.isMoving = FALSE]
             ELSE [p EXCEPT !.position = p.position + Sign(direction) * moveDistance]

----------------------------------------------------------------------------
(* Enemy                                                                    *)

\* new Enemy(position) followed by init(scene)     Enemy.ts:7-30
newEnemy(id, position) ==
    [id |-> id, position |-> position, targetPosition |-> position,
     isMoving |-> FALSE, health |-> enemyMaxHealth, maxHealth |-> enemyMaxHealth,
     isAlive |-> TRUE, lastAttackTime |-> 0]

\* A variant of enemyTakeDamage that never calls die().
enemyTakeDamage_noDie(e, damage) == [e EXCEPT !.health = Max(0, e.health - damage)]

\* Enemy.takeDamage(damage) and die()              Enemy.ts:187-200
enemyTakeDamage(e, damage) ==
    LET h == Max(0, e.health - damage)
    IN  [e EXCEPT !.health = h, !.isAlive = IF h <= 0 THEN FALSE ELSE e.isAlive]

\* A variant of selectBehaviour with the attack range exclusive.
selectBehaviour_exclusive(d) ==
    IF d < enemyAttackRange THEN "attack"
    ELSE IF d <= enemyDetectionRange THEN "chase"
    ELSE "idle"

\* The branch Enemy.update takes for the distance d to the player:
\* attackPlayer, chasePlayer or neither.           Enemy.ts:115-121
selectBehaviour(d) ==
    IF d <= enemyAttackRange THEN "attack"
    ELSE IF d <= enemyDetectionRange THEN "chase"
    ELSE "idle"

\* The cooldown test of Enemy.attackPlayer.        Enemy.ts:160
enemyCanAttack(e, currentTime) ==
    currentTime - e.lastAttackTime >= enemyAttackCooldown

\* A variant of enemyMove that steps along the reversed direction.
enemyMove_away(e, deltaTime) ==
    IF ~e.isMoving
    THEN e
    ELSE LET direction == e.targetPosition - e.position
             distance == Abs(direction)
             moveDistance == enemyMoveSpeed * deltaTime
         IN  IF distance < arriveEpsilon
             THEN [e EXCEPT !.isMoving = FALSE]
             ELSE IF moveDistance >= distance
             THEN [e EXCEPT !.position = e.targetPosition, !.isMoving = FALSE]
             ELSE [e EXCEPT !.position = e.position - Sign(direction) * moveDistance]

\* The "Update movement" block of Enemy.update.    Enemy.ts:124-147
enemyMove(e, deltaTime) ==
    IF ~e.isMoving
    THEN e
    ELSE LET direction == e.targetPosition - e.position
             distance == Abs(direction)
             moveDistance == enemyMoveSpeed * deltaTime
         IN  IF distance < arriveEpsilon
             THEN [e EXCEPT !.isMoving = FALSE]
             ELSE IF moveDistance >= distance
             THEN [e EXCEPT !.position = e.targetPosition, !.isMoving = FALSE]
             ELSE [e EXCEPT !.position = e.position + Sign(direction) * moveDistance]

\* A variant of enemyUpdate that resolves the movement first and then picks
\* the branch from the position reached.
enemyUpdate_moveFirst(e, p, deltaTime, currentTime) ==
    IF ~e.isAlive
    THEN [enemy |-> e, player |-> p, distance |-> distanceTo(e.position, p.position),
          behaviour |-> "none", attacked |-> FALSE]
    ELSE LET e0 == enemyMove(e, deltaTime)
             distanceToPlayer == distanceTo(e0.position, p.position)
             behaviour == selectBehaviour(distanceToPlayer)
             attacks == behaviour = "attack" /\ enemyCanAttack(e0, currentTime)
             e1 == IF attacks
                   THEN [e0 EXCEPT !.lastAttackTime = currentTime]
                   ELSE IF behaviour = "chase"
                   THEN [e0 EXCEPT !.targetPosition = p.position, !.isMoving = TRUE]
                   ELSE e0
             p1 == IF attacks THEN playerTakeDamage(p, enemyAttackDamage) ELSE p
         IN  [enemy |-> e1, player |-> p1,
              distance |-> distanceToPlayer,
              behaviour |-> behaviour, attacked |-> attacks]

\* Enemy.update(deltaTime, player) with Date.now() = currentTime: the enemy
\* and the player after the call, the distance measured, the branch taken
\* and whether player.takeDamage was called.       Enemy.ts:108-165
enemyUpdate(e, p, deltaTime, currentTime) ==
    IF ~e.isAlive
    THEN [enemy |-> e, player |-> p, distance |-> distanceTo(e.position, p.position),
          behaviour |-> "none", attacked |-> FALSE]
    ELSE LET distanceToPlayer == distanceTo(e.position, p.position)
             behaviour == selectBehaviour(distanceToPlayer)
             attacks == behaviour = "attack" /\ enemyCanAttack(e, currentTime)
             e1 == IF attacks
                   THEN [e EXCEPT !.lastAttackTime = currentTime]
                   ELSE IF behaviour = "chase"
                   THEN [e EXCEPT !.targetPosition = p.position, !.isMoving = TRUE]
                   ELSE e
             p1 == IF attacks THEN playerTakeDamage(p, enemyAttackDamage) ELSE p
         IN  [enemy |-> enemyMove(e1, deltaTime), player |-> p1,
              distance |-> distanceToPlayer,
              behaviour |-> behaviour, attacked |-> attacks]

----------------------------------------------------------------------------
(* CombatSystem                                                             *)

\* this.enemies.splice(i, 1)
RemoveAt(s, i) == SubSeq(s, 1, i - 1) \o SubSeq(s, i + 1, Len(s))

\* A variant of updateEnemies that grants the experience for a dead enemy
\* and leaves it in the list.
RECURSIVE updateEnemies_noSplice(_, _, _, _, _, _)
updateEnemies_noSplice(es, p, i, deltaTime, currentTime, acc) ==
    IF i = 0
    THEN [enemies |-> es, player |-> p,
          selections |-> acc.selections, removed |-> acc.removed]
    ELSE IF es[i].isAlive
    THEN LET r == enemyUpdate(es[i], p, deltaTime, currentTime)
         IN  updateEnemies_noSplice([es EXCEPT ![i] = r.enemy], r.player, i - 1,
                 deltaTime, currentTime,
                 [acc EXCEPT !.selections =
                     Append(@, [id |-> es[i].id, distance |-> r.distance,
                                behaviour |-> r.behaviour,
                                attacked |-> r.attacked])])
    ELSE updateEnemies_noSplice(es, gainExperience(p, killExperience), i - 1,
             deltaTime, currentTime,
             [acc EXCEPT !.removed = Append(@, es[i].id)])

\* The "Update all enemies" loop of CombatSystem.update, from index i down
\* to the first element (sequences are 1-based): an alive enemy is updated,
\* a dead one is spliced out and the player gains experience.  acc collects
\* what each enemy did and which enemies were removed.  The result r of
\* enemy.update is bound as the element of a one-element set, which gives
\* it one evaluation like a LET.
\*                                                 CombatSystem.ts:37-49
RECURSIVE updateEnemies(_, _, _, _, _, _)
updateEnemies(es, p, i, deltaTime, currentTime, acc) ==
    IF i = 0
    THEN [enemies |-> es, player |-> p,
          selections |-> acc.selections, removed |-> acc.removed]
    ELSE IF es[i].isAlive
    THEN CHOOSE rest \in
             { updateEnemies([es EXCEPT ![i] = r.enemy], r.player, i - 1,
                   deltaTime, currentTime,
                   [acc EXCEPT !.selections =
                       Append(@, [id |-> es[i].id, distance |-> r.distance,
                                  behaviour |-> r.behaviour,
                                  attacked |-> r.attacked])])
                 : r \in {enemyUpdate(es[i], p, deltaTime, currentTime)} } : TRUE
    ELSE updateEnemies(RemoveAt(es, i), gainExperience(p, killExperience), i - 1,
             deltaTime, currentTime,
             [acc EXCEPT !.removed = Append(@, es[i].id)])

\* A variant of handlePlayerAttacks in which every hit is critical.
handlePlayerAttacks_crit(es, p) ==
    LET inRange == { i \in 1 .. Len(es) :
                        /\ es[i].isAlive
                        /\ distanceTo(p.position, es[i].position) <= playerAttackRange }
    IN  IF inRange = {}
        THEN [enemies |-> es, hit |-> NoEnemy, threw |-> FALSE]
        ELSE LET i == CHOOSE k \in inRange : \A j \in inRange : k <= j
             IN  [enemies |-> [es EXCEPT ![i] =
                                  enemyTakeDamage(es[i], (playerAttackDamage * 3) \div 2)],
                  hit |-> es[i].id, threw |-> TRUE]

\* CombatSystem.handlePlayerAttacks(player).       CombatSystem.ts:55-77
\* The class Player (Player.ts:3-192) defines neither getLastAttackTime nor
\* setLastAttackTime.  For the first alive enemy within attackRange the
\* test `!player.getLastAttackTime || ...` is therefore true without any
\* time being compared, enemy.takeDamage(25) runs, and the call
\* player.setLastAttackTime(currentTime) raises a TypeError that ends the
\* loop and CombatSystem.update.  hit is the enemy damaged (NoEnemy when no
\* alive enemy is in range), threw tells whether the TypeError was raised.
handlePlayerAttacks(es, p) ==
    LET inRange == { i \in 1 .. Len(es) :
                        /\ es[i].isAlive
                        /\ distanceTo(p.position, es[i].position) <= playerAttackRange }
    IN  IF inRange = {}
        THEN [enemies |-> es, hit |-> NoEnemy, threw |-> FALSE]
        ELSE LET i == CHOOSE k \in inRange : \A j \in inRange : k <= j
             IN  [enemies |-> [es EXCEPT ![i] = enemyTakeDamage(es[i], playerAttackDamage)],
                  hit |-> es[i].id, threw |-> TRUE]

\* CombatSystem.update(deltaTime, player)          CombatSystem.ts:35-53
combatUpdate(es, p, deltaTime, currentTime) ==
    LET attacksAfter(u) ==
            CHOOSE result \in
                { [enemies |-> h.enemies, player |-> u.player,
                   selections |-> u.selections, removed |-> u.removed,
                   hit |-> h.hit, threw |-> h.threw]
                    : h \in {handlePlayerAttacks(u.enemies, u.player)} } : TRUE
    IN  CHOOSE result \in
            { attacksAfter(u)
                : u \in {updateEnemies(es, p, Len(es), deltaTime, currentTime,
                                       [selections |-> <<>>, removed |-> <<>>])} } : TRUE

----------------------------------------------------------------------------
(* Entities: actions *)

\* What the caller of the last Player / Enemy / CombatSystem operation
\* observed: the operation and its arguments, the player and the enemy list
\* before it, and for CombatSystem.update what each enemy did (selections),
\* the enemies removed, the enemy the player damaged and whether the update
\* ended by a TypeError.
EntRecord(op, amount, target, r) ==
    [op |-> op, amount |-> amount, target |-> target, time |-> now,
     beforePlayer |-> player, beforeEnemies |-> enemies,
     prevPlayerAttack |-> lastPlayerAttack,
     selections |-> r.selections, removed |-> r.removed,
     hit |-> r.hit, threw |-> r.threw]

\* The operations that only set up the scene (spawnEnemy, moveTo,
\* Player.update, the passing of time) leave nothing to observe.
NoEntCall ==
    [op |-> "none", amount |-> 0, target |-> NoEnemy, time |-> StartTime,
     beforePlayer |-> newPlayer, beforeEnemies |-> <<>>,
     prevPlayerAttack |-> NoTime,
     selections |-> <<>>, removed |-> <<>>,
     hit |-> NoEnemy, threw |-> FALSE]

NoCombat == [selections |-> <<>>, removed |-> <<>>, hit |-> NoEnemy, threw |-> FALSE]

InitEntities ==
    /\ player = newPlayer
    /\ enemies = <<>>
    /\ now = StartTime
    /\ spawned = 0
    /\ lastPlayerAttack = NoTime
    /\ entCall = NoEntCall

\* CombatSystem.spawnEnemy(position)               CombatSystem.ts:110-116
SpawnEnemy(Positions) ==
    \E position \in Positions :
        /\ Len(enemies) < MaxEnemies
        /\ spawned < MaxSpawns
        /\ enemies' = Append(enemies, newEnemy(spawned + 1, position))
        /\ spawned' = spawned + 1
        /\ entCall' = NoEntCall
        /\ UNCHANGED <<player, now, lastPlayerAttack>>
        /\ UNCHANGED invVars

\* The stat mutators are explored from states whose health is in range, so
\* that amounts outside the expected range cannot drive health without bound.
HealthInRange(e) == 0 <= e.health /\ e.health <= e.maxHealth

PlayerTakeDamage(Amounts) ==
    \E damage \in Amounts :
        /\ HealthInRange(player)
        /\ player' = playerTakeDamage(player, damage)
        /\ entCall' = EntRecord("takeDamage", damage, NoEnemy, NoCombat)
        /\ UNCHANGED <<enemies, now, spawned, lastPlayerAttack>>
        /\ UNCHANGED invVars

PlayerHeal(Amounts) ==
    \E amount \in Amounts :
        /\ HealthInRange(player)
        /\ player' = playerHeal(player, amount)
        /\ entCall' = EntRecord("heal", amount, NoEnemy, NoCombat)
        /\ UNCHANGED <<enemies, now, spawned, lastPlayerAttack>>
        /\ UNCHANGED invVars

PlayerGainExperience(Amounts) ==
    \E amount \in Amounts :
        /\ player.level < MaxLevel
        /\ HealthInRange(player)
        /\ player' = gainExperience(player, amount)
        /\ entCall' = EntRecord("gainExperience", amount, NoEnemy, NoCombat)
        /\ UNCHANGED <<enemies, now, spawned, lastPlayerAttack>>
        /\ UNCHANGED invVars

EnemyTakeDamage(Amounts) ==
    \E i \in 1 .. Len(enemies), damage \in Amounts :
        /\ HealthInRange(enemies[i])
        /\ enemies' = [enemies EXCEPT ![i] = enemyTakeDamage(enemies[i], damage)]
        /\ entCall' = EntRecord("enemyTakeDamage", damage, enemies[i].id, NoCombat)
        /\ UNCHANGED <<player, now, spawned, lastPlayerAttack>>
        /\ UNCHANGED invVars

\* Player.moveTo(point), called by the click handler.   Game.ts:118
MoveTo ==
    \E target \in ClickTargets :
        /\ player' = playerMoveTo(player, target)
        /\ entCall' = NoEntCall
        /\ UNCHANGED <<enemies, now, spawned, lastPlayerAttack>>
        /\ UNCHANGED invVars

\* Game.update(deltaTime): this.player.update(deltaTime).   Game.ts:164-179
PlayerUpdate ==
    \E deltaTime \in DeltaTimes :
        /\ player' = playerUpdate(player, deltaTime)
        /\ entCall' = NoEntCall
        /\ UNCHANGED <<enemies, now, spawned, lastPlayerAttack>>
        /\ UNCHANGED invVars

\* CombatSystem.update(deltaTime, player), Date.now() returning now.
CombatUpdate ==
    \E deltaTime \in DeltaTimes :
        \E r \in {combatUpdate(enemies, player, deltaTime, now)} :
            /\ player' = r.player
            /\ enemies' = r.enemies
            /\ lastPlayerAttack' = IF r.hit # NoEnemy THEN now ELSE lastPlayerAttack
            /\ entCall' = EntRecord("update", deltaTime, NoEnemy, r)
            /\ UNCHANGED <<now, spawned>>
            /\ UNCHANGED invVars

\* Wall-clock time passes between two calls.
ClockAdvance ==
    /\ now < StartTime + MaxClockSteps * TimeStep
    /\ now' = now + TimeStep
    /\ entCall' = NoEntCall
    /\ UNCHANGED <<player, enemies, spawned, lastPlayerAttack>>
    /\ UNCHANGED invVars

----------------------------------------------------------------------------
(* Specifications *)

Init == InitInventory /\ InitEntities

\* The inventory driven by any sequence of add / remove / move calls with
\* quantities >= 1 and any slot indices.
SpecInventory == Init /\ [][NextInventory]_vars

\* Quantity arguments that are zero or negative, beside the valid ones.
RawQty == {-1, 0} \cup ValidQty

\* The calls with a raw quantity are explored from inventories whose slots
\* are as initializeSlots and the calls with valid arguments leave them, so
\* that a quantity a call has driven out of range is not driven further.
SlotsInRange ==
    \A i \in SlotIds :
        /\ (slots[i].quantity > 0) <=> (slots[i].item # null)
        /\ slots[i].quantity >= 0
        /\ slots[i].item # null => slots[i].quantity <= StackOrOne(slots[i].item)

NextInventoryRaw ==
    \/ SetInventoryChangedCallback
    \/ (SlotsInRange /\ AddItem(RawQty))
    \/ (SlotsInRange /\ RemoveItem(RawQty))
    \/ (SlotsInRange /\ MoveItem)

\* The inventory driven by add / remove calls with any integer quantity.
SpecInventoryRaw == Init /\ [][NextInventoryRaw]_vars

\* Amounts passed to the stat mutators: zero, the amounts the combat code
\* uses, and one larger than any pool.
\* The enemy position (0, 0, 8) of spawnEnemies.
FarPosition == 160

NonNegAmounts == {0, 25, 200}
AnyAmounts == NonNegAmounts \cup {-25}
ExpAmounts == {0, 25, 250}

NextStats ==
    \/ SpawnEnemy({FarPosition})
    \/ PlayerTakeDamage(NonNegAmounts)
    \/ PlayerHeal(NonNegAmounts)
    \/ PlayerGainExperience(ExpAmounts)
    \/ EnemyTakeDamage(NonNegAmounts)

\* The stat mutators of the player and of the enemies called in any order
\* with non-negative amounts.
SpecStats == Init /\ [][NextStats]_vars

NextStatsAnyAmount ==
    \/ SpawnEnemy({FarPosition})
    \/ PlayerTakeDamage(AnyAmounts)
    \/ PlayerHeal(AnyAmounts)
    \/ PlayerGainExperience(ExpAmounts)
    \/ EnemyTakeDamage(AnyAmounts)

\* The same with zero and negative amounts allowed.
SpecStatsAnyAmount == Init /\ [][NextStatsAnyAmount]_vars

\* Damage the player may take from a caller other than an enemy.
ExternalDamage == {100}

NextCombat ==
    \/ SpawnEnemy(SpawnPositions)
    \/ MoveTo
    \/ PlayerUpdate
    \/ CombatUpdate
    \/ ClockAdvance
    \/ PlayerTakeDamage(ExternalDamage)

\* The simulation: enemies are spawned, the player is sent to ground points,
\* Player.update and CombatSystem.update run in any order while the clock
\* advances.
SpecCombat == Init /\ [][NextCombat]_vars

\* A spawn position from which a chase with steps of FrameDelta leaves the
\* enemy closer to its target than the arrival epsilon without reaching it.
ArrivalSpawns == {61}

NextArrival ==
    \/ SpawnEnemy(ArrivalSpawns)
    \/ MoveTo
    \/ PlayerUpdate
    \/ CombatUpdate

\* The simulation with enemies that end a chase a little short of the target.
SpecArrival == Init /\ [][NextArrival]_vars

\* Spawn positions within the detection range and beyond the attack range
\* of a player that stands at the origin.
ChaseSpawns == {80, 100}

NextChase ==
    \/ SpawnEnemy(ChaseSpawns)
    \/ CombatUpdate
    \/ ClockAdvance

\* The player stands still while enemies are spawned within its detection
\* range and CombatSystem.update runs.
SpecChase == Init /\ [][NextChase]_vars

\* The same, with updates that keep occurring.
SpecChaseFair == SpecChase /\ WF_vars(CombatUpdate)

----------------------------------------------------------------------------
(* Properties of the inventory *)

RECURSIVE SumQuantity(_, _, _)
SumQuantity(s, id, n) ==
    IF n = 0
    THEN 0
    ELSE (IF s[n - 1].item.id = id THEN s[n - 1].quantity ELSE 0)
         + SumQuantity(s, id, n - 1)

\* Total quantity of the item identifier id over all slots of s.
TotalQuantity(s, id) == SumQuantity(s, id, MaxSlots)

IsInventoryOp == invCall.op \in {"add", "remove", "move"}

\* C1: a moveItem call (relocation, partial or full merge, swap, or a call
\* that is refused) leaves, for every item identifier, the total quantity
\* over all slots as it was before the call.
C1_MoveConservesQuantity ==
    invCall.op = "move" =>
        \A id \in ItemIds :
            TotalQuantity(slots, id) = TotalQuantity(invCall.before, id)

\* A partial merge has just happened: the source kept a remainder and the
\* destination grew, both holding the same identifier.
C1_Witness ==
    /\ invCall.op = "move"
    /\ invCall.ret = "true"
    /\ invCall.from \in SlotIds /\ invCall.to \in SlotIds
    /\ slots[invCall.from].item # null
    /\ slots[invCall.from].item.id = slots[invCall.to].item.id
    /\ slots[invCall.to].quantity > invCall.before[invCall.to].quantity
    /\ slots[invCall.from].quantity < invCall.before[invCall.from].quantity

\* C2: in every slot, quantity > 0 exactly when an item is present, and
\* the quantity is at most the item's stack size (1 when the stack size is
\* absent or <= 1).
C2_SlotInvariant ==
    \A i \in SlotIds :
        /\ (slots[i].quantity > 0) <=> (slots[i].item # null)
        /\ slots[i].item # null => slots[i].quantity <= StackOrOne(slots[i].item)

\* After an add of more units than a non-stackable item can hold, the slot
\* it was placed in holds exactly one unit; and some stackable slot is full.
C2_Witness ==
    /\ invCall.op = "add"
    /\ invCall.ret = "true"
    /\ invCall.qty > StackOrOne(invCall.item)
    /\ \E i \in SlotIds :
          /\ invCall.before[i].item = null
          /\ slots[i].item = invCall.item
          /\ slots[i].quantity = StackOrOne(invCall.item)
    /\ \E j \in SlotIds : slots[j].quantity = MaxStack

\* C3: every add / remove / move call that changed at least one slot while
\* a callback was registered invoked the callback exactly once.
C3_ChangeNotifiesOnce ==
    (IsInventoryOp /\ invCall.cb /\ slots # invCall.before)
        => invCall.notified = 1

\* C4: no add / remove / move call ends by throwing, whatever the indices.
C4_NoThrow == IsInventoryOp => invCall.ret # "TypeError"

----------------------------------------------------------------------------
(* Properties of the stat pools *)

\* C5: with non-negative amounts, 0 <= health <= maxHealth for the player
\* and for every enemy, in every reachable state.
C5_HealthWithinBounds ==
    /\ 0 <= player.health /\ player.health <= player.maxHealth
    /\ \A i \in 1 .. Len(enemies) :
          0 <= enemies[i].health /\ enemies[i].health <= enemies[i].maxHealth

\* A heal larger than the missing health has just been absorbed by a player
\* that has levelled up, while an enemy has been brought to zero.
C5_Witness ==
    /\ entCall.op = "heal"
    /\ entCall.beforePlayer.health + entCall.amount > entCall.beforePlayer.maxHealth
    /\ entCall.beforePlayer.health < entCall.beforePlayer.maxHealth
    /\ player.health = player.maxHealth
    /\ player.level > 1
    /\ \E i \in 1 .. Len(enemies) : enemies[i].health = 0

IsStatMutation == entCall.op \in {"takeDamage", "heal", "enemyTakeDamage"}

\* C6: takeDamage(a) and heal(a) with a <= 0 change no field of the player
\* nor of any enemy.
C6_NonPositiveAmountIsNoOp ==
    (IsStatMutation /\ entCall.amount <= 0)
        => /\ player = entCall.beforePlayer
           /\ enemies = entCall.beforeEnemies

----------------------------------------------------------------------------
(* Properties of combat *)

EnemyIds(es) == { es[i].id : i \in 1 .. Len(es) }

\* The enemy of the list es whose identity is id.
EnemyById(es, id) == es[CHOOSE i \in 1 .. Len(es) : es[i].id = id]

IsUpdate == entCall.op = "update"

Selections == { entCall.selections[k] : k \in 1 .. Len(entCall.selections) }

\* The distance between an enemy and the player when the update began.
DistanceBefore(id) ==
    Abs(EnemyById(entCall.beforeEnemies, id).position - entCall.beforePlayer.position)

\* C7, enemy part: an enemy damaged the player in this update only if it was
\* within its attack range and 2000 ms had passed since its last successful
\* attack, and it then stored the current time as its last attack time.
C7_EnemyAttackGated ==
    IsUpdate =>
        \A s \in Selections :
            s.attacked =>
                /\ DistanceBefore(s.id) <= 40
                /\ entCall.time - EnemyById(entCall.beforeEnemies, s.id).lastAttackTime >= 2000
                /\ EnemyById(enemies, s.id).lastAttackTime = entCall.time

\* C7, player part: the player damaged an enemy in this update only if the
\* enemy was within 2.5 and 1500 ms had passed since the player's previous
\* successful attack.
C7_PlayerAttackGated ==
    (IsUpdate /\ entCall.hit # NoEnemy) =>
        /\ Abs(EnemyById(enemies, entCall.hit).position - player.position) <= 50
        /\ entCall.prevPlayerAttack # NoTime =>
              entCall.time - entCall.prevPlayerAttack >= 1500

\* C7: every successful attack is gated by range and cooldown, so that two
\* successive successful attacks of one attacker are a cooldown apart.
C7_AttacksGatedByRangeAndCooldown == C7_EnemyAttackGated /\ C7_PlayerAttackGated

\* C8: an enemy whose health is zero is not alive; a dead enemy is left
\* exactly as it is by every step (it stays dead, does not move, is not
\* damaged), and a CombatSystem.update step removes it from the list
\* without letting it act or be attacked.
C8_DeadEnemy ==
    /\ [](\A i \in 1 .. Len(enemies) : enemies[i].health = 0 => ~enemies[i].isAlive)
    /\ [][\A i \in 1 .. Len(enemies) :
            ~enemies[i].isAlive =>
                /\ \A j \in 1 .. Len(enemies') :
                      enemies'[j].id = enemies[i].id => enemies'[j] = enemies[i]
                /\ entCall'.op = "update" =>
                      /\ enemies[i].id \notin EnemyIds(enemies')
                      /\ \A k \in 1 .. Len(entCall'.selections) :
                            entCall'.selections[k].id # enemies[i].id
                      /\ entCall'.hit # enemies[i].id
         ]_vars

\* An enemy killed by the player has been removed by the update that just
\* ran, and the player was granted the experience for it.
C8_Witness ==
    /\ IsUpdate
    /\ \E k \in 1 .. Len(entCall.removed) :
          /\ entCall.removed[k] \in EnemyIds(entCall.beforeEnemies)
          /\ EnemyById(entCall.beforeEnemies, entCall.removed[k]).health = 0
          /\ entCall.removed[k] \notin EnemyIds(enemies)
    /\ player.experience > 0

\* C9: in an update that begins with the player's health at zero, no enemy
\* attack is applied to the player and the player damages no enemy.
C9_DeadPlayerTakesNoPart ==
    (IsUpdate /\ entCall.beforePlayer.health = 0) =>
        /\ \A s \in Selections : ~s.attacked
        /\ entCall.hit = NoEnemy

\* C10: the branch an alive enemy takes in an update is determined by its
\* distance d to the player at that moment: d <= 2 attack, 2 < d <= 5 chase,
\* d > 5 idle (units of 0.05: 40 and 100); every alive enemy takes one.
C10_BehaviourFromDistance ==
    IsUpdate =>
        /\ \A s \in Selections :
              LET d == DistanceBefore(s.id)
              IN  /\ d <= 40 => s.behaviour = "attack"
                  /\ (40 < d /\ d <= 100) => s.behaviour = "chase"
                  /\ d > 100 => s.behaviour = "idle"
        /\ \A i \in 1 .. Len(entCall.beforeEnemies) :
              entCall.beforeEnemies[i].isAlive =>
                  \E s \in Selections : s.id = entCall.beforeEnemies[i].id

\* In one update an enemy that was chasing (still moving) is now beyond the
\* detection range and idles, while another one exactly at the detection
\* range chases.
C10_Witness ==
    /\ IsUpdate
    /\ \E s \in Selections :
          /\ s.behaviour = "idle"
          /\ EnemyById(entCall.beforeEnemies, s.id).isMoving
    /\ \E s \in Selections :
          /\ s.behaviour = "chase"
          /\ DistanceBefore(s.id) = 100

\* The enemy of a selection, before and after the update that recorded it.
EnemyBefore(s) == EnemyById(entCall.beforeEnemies, s.id)
EnemyAfter(s) == EnemyById(enemies, s.id)

\* C11: in an update where an alive enemy is farther from the player than
\* the detection range (idle), the update leaves the enemy's position as it
\* was and the enemy makes no attack, also when it was chasing before.
C11_IdleEnemyStaysPut ==
    IsUpdate =>
        \A s \in Selections :
            s.behaviour = "idle" =>
                /\ ~s.attacked
                /\ EnemyAfter(s).lastAttackTime = EnemyBefore(s).lastAttackTime
                /\ EnemyAfter(s).position = EnemyBefore(s).position

\* C11, attack part alone: an idle enemy makes no attack.
C11_IdleEnemyDoesNotAttack ==
    IsUpdate =>
        \A s \in Selections :
            s.behaviour = "idle" =>
                /\ ~s.attacked
                /\ EnemyAfter(s).lastAttackTime = EnemyBefore(s).lastAttackTime

\* C12: in an update where an alive enemy is within the attack range of the
\* player (attacking), the update leaves the enemy's position as it was,
\* also when it was chasing before.
C12_AttackingEnemyStationary ==
    IsUpdate =>
        \A s \in Selections :
            (s.behaviour = "attack" /\ s.id \in EnemyIds(enemies)) =>
                EnemyAfter(s).position = EnemyBefore(s).position

\* C13, player: a player that is not moving stands on its target.
C13_PlayerAtTarget == ~player.isMoving => player.position = player.targetPosition

\* C13, enemies: an enemy that is not moving stands on its target.
C13_EnemiesAtTarget ==
    \A i \in 1 .. Len(enemies) :
        ~enemies[i].isMoving => enemies[i].position = enemies[i].targetPosition

\* C13: for the player and every enemy, a movement update that ends the
\* motion leaves the position equal to the target, so that in every state
\* where the entity is not moving its position equals its target.
C13_StoppedAtTarget == C13_PlayerAtTarget /\ C13_EnemiesAtTarget

----------------------------------------------------------------------------
(* Properties of the player's progression *)

IsGainExperience == entCall.op = "gainExperience"

\* C14: gainExperience(amount) adds amount to the experience counter; if the
\* counter then reaches level x 100 the level rises by one and the counter
\* is reset to 0, the remainder being discarded; otherwise the level is
\* unchanged and the counter keeps the sum.  250 granted to a level-1 player
\* with no experience gives level 2 and experience 0.
C14_GainExperience ==
    IsGainExperience =>
        LET b == entCall.beforePlayer
            total == b.experience + entCall.amount
        IN  /\ total >= b.level * 100 =>
                  /\ player.level = b.level + 1
                  /\ player.experience = 0
            /\ total < b.level * 100 =>
                  /\ player.level = b.level
                  /\ player.experience = total
            /\ (b.level = 1 /\ b.experience = 0 /\ entCall.amount = 250) =>
                  /\ player.level = 2
                  /\ player.experience = 0
                  /\ player.level * 100 = 200

\* 250 experience granted at once to a fresh player: level 2, and the 150
\* over the threshold are gone.
C14_Witness ==
    /\ IsGainExperience
    /\ entCall.beforePlayer.level = 1
    /\ entCall.beforePlayer.experience = 0
    /\ entCall.amount = 250
    /\ player.level = 2
    /\ player.experience = 0

\* The level-up handling written as a loop: while the counter reaches the
\* threshold of the level, level up.
RECURSIVE levelUpWhile(_)
levelUpWhile(p) ==
    IF p.experience >= p.level * 100 THEN levelUpWhile(levelUp(p)) ELSE p

\* C15: in every state, so after every gainExperience call with an amount
\* >= 0, experience < level x 100: no level-up is left pending, and the call
\* gives what a loop over the threshold test gives.
C15_NoLevelUpPending ==
    /\ player.experience < player.level * 100
    /\ IsGainExperience =>
          player = levelUpWhile([entCall.beforePlayer EXCEPT
                                    !.experience = @ + entCall.amount])

\* A single grant that is larger than the thresholds of the first and of the
\* second level together with what was there before.
C15_Witness ==
    /\ IsGainExperience
    /\ entCall.beforePlayer.experience + entCall.amount >= 200
    /\ entCall.beforePlayer.level = 1
    /\ player.level = 2

\* C16: every level-up raises maxHealth by 20 and sets health to the new
\* maximum in the same step; maxHealth = 100 + 20 x (level - 1) in every
\* state, and the level never decreases.
C16_LevelUpHealth ==
    /\ [](player.maxHealth = 100 + 20 * (player.level - 1))
    /\ [][/\ player'.level >= player.level
          /\ player'.level # player.level =>
                /\ player'.level = player.level + 1
                /\ player'.maxHealth = player.maxHealth + 20
                /\ player'.health = player'.maxHealth
         ]_vars

\* A damaged player has levelled up and stands at full health 120.
C16_Witness ==
    /\ IsGainExperience
    /\ entCall.beforePlayer.health < entCall.beforePlayer.maxHealth
    /\ player.level = entCall.beforePlayer.level + 1
    /\ player.health = 120
    /\ player.maxHealth = 120

----------------------------------------------------------------------------
(* Properties of the damage of an attack *)

\* Crit chances 0.0 and 1.0 and random draws of [0, 1), in hundredths.
CritChances == {0, 100}
Draws == {0, 50, 99}

\* The damage of a hit as the claim computes it: floor(base x 1.5) when the
\* draw is below the crit chance, else the base.
calculateDamage(base, critChance, draw) ==
    IF draw < critChance THEN (base * 3) \div 2 ELSE base

\* The health an enemy hit by the player's auto-attack lost in the update.
DamageToEnemy ==
    EnemyById(entCall.beforeEnemies, entCall.hit).health
        - EnemyById(enemies, entCall.hit).health

----------------------------------------------------------------------------
(* Properties of add and remove *)

IsAdd == invCall.op = "add"
IsRemove == invCall.op = "remove"

\* The slots of the inventory before the call whose stack of the item added
\* has room, and the empty ones.
SlotsWithRoom ==
    { i \in SlotIds :
        /\ invCall.before[i].item # null
        /\ invCall.before[i].item.id = invCall.item.id
        /\ invCall.before[i].quantity < invCall.item.stackSize }
EmptyBefore == { i \in SlotIds : invCall.before[i].item = null }

Lowest(S) == CHOOSE i \in S : \A j \in S : i <= j

\* C18: add(item, q) of a stackable item (max stack > 1), when the
\* lowest-index slot holding the same identifier below the max stack has
\* room >= q, raises that slot's quantity by exactly q, changes no other
\* slot and returns success.
C18_TopUpExistingStack ==
    (/\ IsAdd
     /\ invCall.item.stackSize > 1
     /\ SlotsWithRoom # {}
     /\ invCall.item.stackSize - invCall.before[Lowest(SlotsWithRoom)].quantity
            >= invCall.qty) =>
        LET k == Lowest(SlotsWithRoom)
        IN  /\ invCall.ret = "true"
            /\ slots = [invCall.before EXCEPT ![k].quantity = @ + invCall.qty]

\* The same stackable item added twice into an empty inventory: one slot
\* holds both units and every other slot is empty.
C18_Witness ==
    /\ IsAdd
    /\ invCall.item.stackSize > 1
    /\ invCall.before[0].item = invCall.item
    /\ invCall.before[0].quantity = invCall.qty
    /\ \A i \in SlotIds \ {0} : invCall.before[i] = emptySlot
    /\ slots[0].quantity = 2 * invCall.qty
    /\ \A i \in SlotIds \ {0} : slots[i] = emptySlot

\* What add's top-up step leaves to place: the quantity asked for less what
\* the lowest-index slot with room takes.
RemainingAfterTopUp ==
    IF invCall.item.stackSize > 1 /\ SlotsWithRoom # {}
    THEN invCall.qty
           - Min(invCall.qty,
                 invCall.item.stackSize
                    - invCall.before[Lowest(SlotsWithRoom)].quantity)
    ELSE invCall.qty

\* C19: when r >= 1 units remain after the top-up step (all of them when
\* the item is not stackable or no slot with the same identifier has room)
\* and an empty slot exists, add puts the item with quantity
\* min(r, max stack size or 1) into the lowest-index empty slot and returns
\* success; one add call changes at most one slot that was occupied and at
\* most one slot that was empty.
C19_PlaceInFirstEmptySlot ==
    IsAdd =>
        /\ (RemainingAfterTopUp >= 1 /\ EmptyBefore # {}) =>
              LET e == Lowest(EmptyBefore)
                  cap == IF invCall.item.stackSize >= 1
                         THEN invCall.item.stackSize ELSE 1
              IN  /\ invCall.ret = "true"
                  /\ slots[e].item = invCall.item
                  /\ slots[e].quantity = Min(RemainingAfterTopUp, cap)
                  /\ \A i \in EmptyBefore \ {e} : slots[i] = invCall.before[i]
        /\ Cardinality({ i \in SlotIds \ EmptyBefore :
                            slots[i] # invCall.before[i] }) <= 1
        /\ Cardinality({ i \in EmptyBefore :
                            slots[i] # invCall.before[i] }) <= 1

\* One add has filled up a stack and put the rest into an empty slot that
\* is not the first slot of the inventory, leaving a higher empty slot empty.
C19_Witness ==
    /\ IsAdd
    /\ invCall.ret = "true"
    /\ RemainingAfterTopUp >= 1
    /\ RemainingAfterTopUp < invCall.qty
    /\ \E e \in EmptyBefore :
          /\ e > 0
          /\ \E h \in EmptyBefore : h > e
          /\ slots[e].item = invCall.item
          /\ slots[e].quantity = RemainingAfterTopUp

\* C20: remove(i, q) of an occupied slot i with q >= 1 returns the item the
\* slot held before the call; if q is less than the slot's quantity the
\* slot keeps the item with the quantity reduced by q, otherwise the slot
\* is cleared to (no item, 0); no other slot changes.
C20_RemoveFromOccupiedSlot ==
    (/\ IsRemove
     /\ invCall.from \in SlotIds
     /\ invCall.before[invCall.from].item # null
     /\ invCall.qty >= 1) =>
        LET i == invCall.from
            b == invCall.before[i]
        IN  /\ invCall.ret = "item"
            /\ invCall.removed = b.item
            /\ invCall.qty < b.quantity =>
                  slots = [invCall.before EXCEPT ![i].quantity = b.quantity - invCall.qty]
            /\ invCall.qty >= b.quantity =>
                  slots = [invCall.before EXCEPT ![i] = [item |-> null, quantity |-> 0]]

\* More units than the slot held were removed from it while another slot
\* was occupied: the slot is empty and the item it held was returned.
C20_Witness ==
    /\ IsRemove
    /\ invCall.from \in SlotIds
    /\ invCall.before[invCall.from].item # null
    /\ invCall.qty > invCall.before[invCall.from].quantity
    /\ slots[invCall.from] = emptySlot
    /\ invCall.removed = invCall.before[invCall.from].item
    /\ \E j \in SlotIds \ {invCall.from} : slots[j].item # null

\* C21: remove(i, q) of an empty slot, or with an index that is not a slot
\* of the inventory, returns nothing, leaves every slot as it was and
\* invokes no inventory-changed callback.
C21_RemoveNothing ==
    (/\ IsRemove
     /\ \/ invCall.from \notin SlotIds
        \/ invCall.before[invCall.from].item = null) =>
        /\ invCall.ret = "null"
        /\ slots = invCall.before
        /\ invCall.notified = 0

\* With a callback registered and an item in the inventory, a remove with an
\* index beyond the last slot has returned nothing.
C21_Witness ==
    /\ IsRemove
    /\ invCall.from = MaxSlots
    /\ invCall.cb
    /\ \E i \in SlotIds : invCall.before[i].item # null
    /\ invCall.ret = "null"

----------------------------------------------------------------------------
(* Properties of move *)

IsMove == invCall.op = "move"

\* The slots a move names, before the call.
FromBefore == invCall.before[invCall.from]
ToBefore == invCall.before[invCall.to]

\* Both indices of the move are slots, they differ, and both were occupied.
MoveBetweenOccupied ==
    /\ IsMove
    /\ invCall.from \in SlotIds
    /\ invCall.to \in SlotIds
    /\ invCall.from # invCall.to
    /\ FromBefore.item # null
    /\ ToBefore.item # null

\* C22: move(from, to) with from = to, or with an empty source slot whatever
\* the destination holds, returns failure, leaves every slot as it was and
\* invokes no inventory-changed callback.
C22_MoveRefused ==
    (/\ IsMove
     /\ \/ invCall.from = invCall.to
        \/ (invCall.from \in SlotIds /\ FromBefore.item = null)) =>
        /\ invCall.ret = "false"
        /\ slots = invCall.before
        /\ invCall.notified = 0

\* With a callback registered, a move of an occupied slot onto itself has
\* been refused.
C22_Witness ==
    /\ IsMove
    /\ invCall.from = invCall.to
    /\ invCall.from \in SlotIds
    /\ FromBefore.item # null
    /\ FromBefore.quantity < FromBefore.item.stackSize
    /\ invCall.cb
    /\ invCall.ret = "false"

\* C23: move(A, B) where A and B hold the same stackable identifier and B is
\* below the max stack size transfers exactly
\* min(quantity(A), max stack - quantity(B)) units from A to B; A is cleared
\* when nothing is left in it and keeps the remainder otherwise.
C23_MergeTransfers ==
    (/\ MoveBetweenOccupied
     /\ FromBefore.item.id = ToBefore.item.id
     /\ FromBefore.item.stackSize > 1
     /\ ToBefore.quantity < FromBefore.item.stackSize) =>
        LET moved == Min(FromBefore.quantity,
                         FromBefore.item.stackSize - ToBefore.quantity)
        IN  /\ slots[invCall.to] = [ToBefore EXCEPT !.quantity = @ + moved]
            /\ slots[invCall.from] =
                  IF FromBefore.quantity = moved
                  THEN [item |-> null, quantity |-> 0]
                  ELSE [FromBefore EXCEPT !.quantity = @ - moved]
            /\ \A i \in SlotIds \ {invCall.from, invCall.to} :
                  slots[i] = invCall.before[i]

\* A merge that filled the destination and left a remainder in the source.
C23_Witness ==
    /\ MoveBetweenOccupied
    /\ FromBefore.item.id = ToBefore.item.id
    /\ ToBefore.quantity < FromBefore.item.stackSize
    /\ slots[invCall.to].quantity = FromBefore.item.stackSize
    /\ slots[invCall.from].item = FromBefore.item
    /\ slots[invCall.from].quantity >= 1
    /\ slots[invCall.from].quantity < FromBefore.quantity

\* C24: move(A, B) where both slots are occupied and the identifiers differ,
\* or the item is not stackable, or B is at the max stack size swaps the
\* slots: A holds what B held, B holds what A held, every other slot is
\* unchanged and the call returns success.
C24_SwapExchanges ==
    (/\ MoveBetweenOccupied
     /\ \/ FromBefore.item.id # ToBefore.item.id
        \/ FromBefore.item.stackSize <= 1
        \/ ToBefore.quantity >= FromBefore.item.stackSize) =>
        /\ invCall.ret = "true"
        /\ slots = [invCall.before EXCEPT ![invCall.from] = ToBefore,
                                          ![invCall.to] = FromBefore]

\* A partly filled stack was moved onto a full stack of the same item and
\* the two have changed places.
C24_Witness ==
    /\ MoveBetweenOccupied
    /\ FromBefore.item.id = ToBefore.item.id
    /\ FromBefore.item.stackSize > 1
    /\ ToBefore.quantity = FromBefore.item.stackSize
    /\ FromBefore.quantity < ToBefore.quantity
    /\ slots[invCall.from] = ToBefore
    /\ slots[invCall.to] = FromBefore

\* C25: move(A, B) where A is occupied and B is an empty slot relocates the
\* stack: B holds A's former item and quantity, A is empty (no item, 0),
\* every other slot is unchanged and the call returns success.
C25_RelocateToEmpty ==
    (/\ IsMove
     /\ invCall.from \in SlotIds
     /\ invCall.to \in SlotIds
     /\ FromBefore.item # null
     /\ ToBefore.item = null) =>
        /\ invCall.ret = "true"
        /\ slots = [invCall.before EXCEPT
                        ![invCall.to] = FromBefore,
                        ![invCall.from] = [item |-> null, quantity |-> 0]]

\* A stack was relocated to an empty slot while a third slot was occupied.
C25_Witness ==
    /\ IsMove
    /\ invCall.from \in SlotIds
    /\ invCall.to \in SlotIds
    /\ FromBefore.item # null
    /\ ToBefore.item = null
    /\ slots[invCall.to] = FromBefore
    /\ slots[invCall.from] = emptySlot
    /\ \E i \in SlotIds \ {invCall.from, invCall.to} : slots[i].item # null

----------------------------------------------------------------------------
(* Properties of the order within an update *)

\* The distance between an enemy and the player when the update has ended.
DistanceAfter(id) == Abs(EnemyById(enemies, id).position - player.position)

\* The enemies of the list that were dead when the update began.
DeadBefore ==
    { entCall.beforeEnemies[i].id :
        i \in { k \in 1 .. Len(entCall.beforeEnemies) :
                    ~entCall.beforeEnemies[k].isAlive } }

----------------------------------------------------------------------------
(* Properties of add and remove at the limits *)

\* C27: whenever add(item, q) returns failure the inventory is exactly as
\* it was before the call, also when a slot with the same identifier had
\* room for a part of q only and no empty slot existed.
C27_FailedAddChangesNothing ==
    (IsAdd /\ invCall.ret = "false") => slots = invCall.before

\* C28: after add(item, q) or remove(i, q) with q zero or negative every
\* slot still has 0 <= quantity <= its item's max stack size, and
\* quantity > 0 exactly when an item is present.
C28_NonPositiveQuantityClamped ==
    ((IsAdd \/ IsRemove) /\ invCall.qty <= 0) =>
        \A i \in SlotIds :
            /\ slots[i].quantity >= 0
            /\ (slots[i].quantity > 0) <=> (slots[i].item # null)
            /\ slots[i].item # null => slots[i].quantity <= StackOrOne(slots[i].item)

\* C28 for a quantity of zero: the slots are left as they were.
C28_ZeroQuantityChangesNothing ==
    ((IsAdd \/ IsRemove) /\ invCall.qty = 0) => slots = invCall.before

----------------------------------------------------------------------------
(* Properties of the removal of dead enemies *)

\* The enemies of the list that were alive when the update began.
AliveBefore == EnemyIds(entCall.beforeEnemies) \ DeadBefore

\* The experience the player has earned since construction: what it holds
\* and the thresholds 100, 200, ... of the levels it has passed.
ExperienceEarned == player.experience + 50 * player.level * (player.level - 1)

\* C29: every enemy that has died is removed from the list exactly once, by
\* the first update after its death, and the player is granted 25 experience
\* at that removal: the experience earned is 25 for every enemy that has
\* left the list, none for an enemy still in it; an update removes exactly
\* the enemies that were dead when it began, each once, and updates every
\* enemy that was alive exactly once, skipping none.
C29_DeadRemovedOnceWithExperience ==
    /\ ExperienceEarned = 25 * (spawned - Len(enemies))
    /\ Cardinality(EnemyIds(enemies)) = Len(enemies)
    /\ IsUpdate =>
          /\ { entCall.removed[k] : k \in 1 .. Len(entCall.removed) } = DeadBefore
          /\ Len(entCall.removed) = Cardinality(DeadBefore)
          /\ EnemyIds(enemies) = AliveBefore
          /\ { s.id : s \in Selections } = AliveBefore
          /\ Len(entCall.selections) = Cardinality(AliveBefore)

\* An update found the first enemy of the list dead and the second alive:
\* the dead one is gone, the player holds its 25 experience, and the alive
\* one was updated.
C29_Witness ==
    /\ IsUpdate
    /\ Len(entCall.beforeEnemies) = 2
    /\ ~entCall.beforeEnemies[1].isAlive
    /\ entCall.beforeEnemies[2].isAlive
    /\ entCall.removed = <<entCall.beforeEnemies[1].id>>
    /\ Len(entCall.selections) = 1
    /\ entCall.selections[1].id = entCall.beforeEnemies[2].id
    /\ player.experience = entCall.beforePlayer.experience + 25

----------------------------------------------------------------------------
(* Properties of the chase *)

\* The enemy with identity id is in the list, alive, beyond its attack range
\* and within its detection range of the player.
Chasing(id) ==
    \E i \in 1 .. Len(enemies) :
        /\ enemies[i].id = id
        /\ enemies[i].isAlive
        /\ Abs(enemies[i].position - player.position) > 40
        /\ Abs(enemies[i].position - player.position) <= 100

\* The enemy with identity id is within its attack range and has attacked.
HasAttacked(id) ==
    \E i \in 1 .. Len(enemies) :
        /\ enemies[i].id = id
        /\ Abs(enemies[i].position - player.position) <= 40
        /\ enemies[i].lastAttackTime > 0

\* The enemy with identity id has died: it is dead in the list or gone.
HasDied(id) ==
    /\ id <= spawned
    /\ \A i \in 1 .. Len(enemies) : enemies[i].id = id => ~enemies[i].isAlive

\* No step takes an enemy farther from the player than it was.
DistanceNeverIncreases ==
    [][\A i \in 1 .. Len(enemies) : \A j \in 1 .. Len(enemies') :
          enemies'[j].id = enemies[i].id =>
              Abs(enemies'[j].position - player'.position)
                  <= Abs(enemies[i].position - player.position)]_vars

====
